---- MODULE Spec2Model ----
(***************************************************************************)
(* The "Run and Choose" endless runner (src/game.js): one Game session     *)
(* object advanced by the animation-frame callback and mutated by the      *)
(* pointer and keyboard callbacks; the image loader that precedes it; and  *)
(* the offline cache of src/service-worker.js.                             *)
(*                                                                         *)
(* Units.  JavaScript numbers are modelled by integers in fixed units:     *)
(*   lengths and positions   1/1000 px   (canvas.width/height stay in px)  *)
(*   frame time step delta   1/100 s     (update's delta is in seconds)    *)
(*   spawnTimer/Interval     ms                                            *)
(*   damageFlash             1/100 s                                       *)
(*   level speed             1/10        (2.0 is 20, 4.6 is 46)            *)
(*   Math.random()           1/1000      (0 <= value < 1000)               *)
(* In these units every product the code forms is an integer.              *)
(***************************************************************************)
EXTENDS Integers, Sequences, FiniteSets, TLC

VARIABLES
    canvas,            \* canvas.width, canvas.height (px)
    levelIndex,
    monsters,          \* sequence of Monster records
    spawnTimer,
    spawnInterval,
    monstersSpawned,
    monstersDefeated,
    monstersToSpawn,
    nextChoiceAt,
    hearts,
    hero,              \* Hero record: x, y, width, height, weapon
    bgX,
    gameState,
    choiceActive,
    leftOption,
    rightOption,
    damageFlash,       \* <<>> is undefined, <<t>> is the number t
    idleFrames,        \* history: frames run in a row while paused
    lastUpdate,        \* history: what the most recent update() call did
    sinceFrame,        \* history: selections delivered since the last frame
    assetList,         \* loadImages: the mapping name -> URL it was called with
    images,            \* loadImages: name -> image, the settled entries
    loaded,            \* loadImages: the callback counter
    pending,           \* names whose load/error callback has not fired yet
    resolveCalls,      \* history: how many times resolve() was called
    resolved,          \* <<>> while the promise is pending, <<value>> after
    swState,           \* life cycle of the service worker: parsed until the
                       \* promise given to waitUntil by install has settled
    installStep,       \* the promise of the install listener still pending
    activateStep,      \* the promise of the activate listener: none before
                       \* the event, keys and deletes while it is pending,
                       \* then fulfilled or rejected
    cacheStorage,      \* CacheStorage: cache name -> set of cached URLs
    deleting,          \* caches.delete() calls of activate still in flight
    preexisting,       \* history: the cache names before install
    deleted,           \* history: the cache names activate has deleted
    fetchEvent,        \* the fetch event being handled, <<>> when none
    fetchLog           \* history: the fetch events answered so far

\* The Game object, the canvas and the history of update().
gameVars == <<canvas, levelIndex, monsters, spawnTimer, spawnInterval,
              monstersSpawned, monstersDefeated, monstersToSpawn, nextChoiceAt,
              hearts, hero, bgX, gameState, choiceActive, leftOption,
              rightOption, damageFlash, idleFrames, lastUpdate>>

\* The state of one loadImages call.
loadVars == <<assetList, images, loaded, pending, resolveCalls, resolved>>

\* The service worker and the caches of its origin.
swVars == <<swState, installStep, activateStep, cacheStorage, deleting,
            preexisting, deleted, fetchEvent, fetchLog>>

vars == <<gameVars, sinceFrame, loadVars, swVars>>

-----------------------------------------------------------------------------
(* Bounds and input sets *)

\* At most this many consecutive frames are explored while the game is paused
\* (choice, levelEnd, gameOver); such frames only scroll the background.
MaxIdleFrames == 1

\* Resize events are followed up to this level; the later levels run in the
\* window the last of them left.
MaxResizeLevel == 0

\* The page is hidden up to this level only.
MaxLateLevel == 0

\* At most this many selection inputs are followed between two frames.
MaxSelections == 2

\* window.innerWidth x window.innerHeight at load (px).
WindowSizes == {[width |-> 400, height |-> 800]}

\* Frame time steps (1/100 s): timestamp differences seen by loop().
Deltas == {50}

\* Values returned by Math.random() (1/1000).
\* The time step of a frame shorter than the damage flash (0.2 s).
BriefDeltas == {15}

\* The time step of the first frame after the page was hidden for 400 s:
\* no frame is requested while the page is hidden.
LateDeltas == {40000}

RandomValues == {0, 750}

Sides == {"left", "right"}

\* window.innerWidth x window.innerHeight after a resize event (px): a
\* window narrower and lower than the one of WindowSizes.
ResizedSizes == {[width |-> 200, height |-> 600]}

\* The cache names an origin can hold before the worker is installed: the
\* current version, an older version and a cache of another application.
CacheNames == {"run-choose-root-cache-v1", "run-choose-root-cache-v0",
               "other-cache"}

\* The URLs a cache that exists before install can hold.
StaleFiles == {"/index.html", "/old.png"}

\* The URLs of the fetch events: a pre-cached file, a file only an older
\* cache can hold, and a URL that is never cached.
RequestUrls == {"/index.html", "/old.png", "/api/score"}

Keys == {"ArrowLeft", "a", "ArrowRight", "d", " ", "Enter", "Escape"}

-----------------------------------------------------------------------------
(* Static data *)

LEVELS == <<
    [monsterCount |-> 5,  speed |-> 20],
    [monsterCount |-> 8,  speed |-> 22],
    [monsterCount |-> 10, speed |-> 25],
    [monsterCount |-> 12, speed |-> 28],
    [monsterCount |-> 14, speed |-> 31],
    [monsterCount |-> 16, speed |-> 34],
    [monsterCount |-> 18, speed |-> 37],
    [monsterCount |-> 20, speed |-> 40],
    [monsterCount |-> 22, speed |-> 43],
    [monsterCount |-> 25, speed |-> 46] >>

\* ASSETS of game.js: logical name -> URL.
ASSETS ==
    [name \in {"hero", "sword", "wand", "monster1", "monster2", "background"} |->
        CASE name = "hero" -> "hero.png"
          [] name = "sword" -> "sword.png"
          [] name = "wand" -> "wand.png"
          [] name = "monster1" -> "monster1.png"
          [] name = "monster2" -> "monster2.png"
          [] name = "background" -> "background.png"]

\* CACHE_NAME and FILES_TO_CACHE of service-worker.js.
CACHE_NAME == "run-choose-root-cache-v1"

FILES_TO_CACHE ==
    <<"/", "/index.html", "/game.js", "/manifest.json", "/service-worker.js",
      "/hero.png", "/sword.png", "/wand.png", "/monster1.png", "/monster2.png",
      "/background.png">>

\* LEVELS[index] with the source's 0-based index.
Level(index) == LEVELS[index + 1]

Min(a, b) == IF a < b THEN a ELSE b
Max(a, b) == IF a > b THEN a ELSE b

\* Array.prototype.splice(i, 1) on a 1-based sequence.
Splice(s, i) == SubSeq(s, 1, i - 1) \o SubSeq(s, i + 1, Len(s))

-----------------------------------------------------------------------------
(* Hero and Monster *)

\* new Hero(img)
HeroNew == [x |-> 0, y |-> 0, width |-> 80000, height |-> 80000,
            weapon |-> "sword"]

\* Hero.resetPosition()
resetPosition(h, cv) ==
    LET w == cv.height * 150
    IN  [h EXCEPT !.width = w,
                  !.height = w,
                  !.x = cv.width * 100,
                  !.y = cv.height * 1000 - w - cv.height * 100]

\* new Monster(type, img); rv is the Math.random() of the constructor.
MonsterNew(type, rv, cv) ==
    LET w == cv.height * 120
    IN  [type |-> type,
         x |-> cv.width * 1000 + (rv * cv.width) \div 2,
         width |-> w,
         height |-> w,
         y |-> cv.height * 1000 - w - cv.height * 100,
         required |-> IF type = "beast" THEN "sword" ELSE "magic"]

\* Monster.update(dt, baseSpeed), called with dt = delta * 100.
MonsterUpdate(m, delta, baseSpeed) == [m EXCEPT !.x = m.x - baseSpeed * delta * 100]

\* offscreen testing the left edge of the monster only.
offscreenNoWidth(m) == m.x < 0

\* Monster.offscreen()
offscreen(m) == m.x + m.width < 0

\* The rectangle test of update(): the hero's hit box is the middle
\* 30%..70% of its width.  Both sides are scaled by 10 to stay in integers.
Collides(m, h) ==
    /\ 10 * m.x < 10 * h.x + 7 * h.width
    /\ 10 * (m.x + m.width) > 10 * h.x + 3 * h.width
    /\ m.y < h.y + h.height
    /\ m.y + m.height > h.y

\* The weapon that defeats a monster, as update() computes it.
Counter(m) == IF m.type = "beast" THEN "sword" ELSE "magic"

-----------------------------------------------------------------------------
(* Game *)

\* lastUpdate before any frame has run.
NoUpdate == [from |-> "none", spawned |-> 0, escaped |-> 0, matched |-> 0,
             mismatched |-> 0]

Paused == {"choice", "levelEnd", "gameOver"}

GameInit ==
    /\ canvas \in WindowSizes
    /\ levelIndex = 0
    /\ monsters = <<>>
    /\ spawnTimer = 0
    /\ spawnInterval = 1000
    /\ monstersSpawned = 0
    /\ monstersDefeated = 0
    /\ monstersToSpawn = 0
    /\ nextChoiceAt = 0
    /\ hearts = 3
    /\ hero = HeroNew
    /\ bgX = 0
    /\ gameState = "intro"
    /\ choiceActive = FALSE
    /\ leftOption = "sword"
    /\ rightOption = "magic"
    /\ damageFlash = <<>>
    /\ idleFrames = 0
    /\ lastUpdate = NoUpdate
    /\ sinceFrame = <<>>

\* Game.randomizeChoices(); rv is its Math.random().
randomizeChoices ==
    \E rv \in RandomValues :
        IF rv < 500
        THEN leftOption' = "sword" /\ rightOption' = "magic"
        ELSE leftOption' = "magic" /\ rightOption' = "sword"

\* Game.startLevel(index)
startLevel(index) ==
    /\ levelIndex' = index
    /\ hearts' = 3
    /\ monsters' = <<>>
    /\ spawnTimer' = 0
    /\ spawnInterval' = Max(400, 1000 - index * 50)
    /\ monstersSpawned' = 0
    /\ monstersDefeated' = 0
    /\ monstersToSpawn' = Level(index).monsterCount
    /\ nextChoiceAt' = Min(3, Level(index).monsterCount)
    /\ hero' = [resetPosition(hero, canvas) EXCEPT !.weapon = "sword"]
    /\ bgX' = 0
    /\ gameState' = "choice"
    /\ choiceActive' = TRUE
    /\ randomizeChoices
    /\ idleFrames' = 0
    /\ UNCHANGED <<canvas, damageFlash, lastUpdate>>

\* loadImages(ASSETS).then(...): the game is constructed and level 0 started
\* in one callback, before the first frame is requested.
Start ==
    /\ gameState = "intro"
    /\ resolved # <<>>
    /\ startLevel(0)
    /\ UNCHANGED <<loadVars, swVars>>
    /\ UNCHANGED sinceFrame

\* Game.spawnMonster(): the monster lists it can leave behind; rvType and rvX
\* are its two Math.random() values.
spawnMonster(ms, cv) ==
    { Append(ms, MonsterNew(IF rvType < 500 THEN "beast" ELSE "ghost", rvX, cv)) :
          rvType \in RandomValues, rvX \in RandomValues }

\* The "Update monsters" loop of update(): i runs from the last monster down
\* to the first; each monster moves, and one that is offscreen afterwards is
\* spliced out and counted as defeated.
RECURSIVE MoveLoop(_, _, _, _, _)
MoveLoop(ms, i, defeated, delta, speed) ==
    IF i < 1
    THEN [monsters |-> ms, monstersDefeated |-> defeated]
    ELSE LET m == MonsterUpdate(ms[i], delta, speed)
         IN  IF offscreen(m)
             THEN MoveLoop(Splice(ms, i), i - 1, defeated + 1, delta, speed)
             ELSE MoveLoop([ms EXCEPT ![i] = m], i - 1, defeated, delta, speed)

\* Matched with the defeat not counted.
MatchedUncounted(g, i) ==
    [g EXCEPT !.monsters = Splice(g.monsters, i)]

\* What update() does to one colliding monster: g carries monsters, hearts,
\* monstersDefeated and damageFlash.
Matched(g, i) ==
    [g EXCEPT !.monsters = Splice(g.monsters, i),
              !.monstersDefeated = g.monstersDefeated + 1]

\* Mismatched with the splice forgotten: the monster is counted and stays in
\* the list.
MismatchedNoSplice(g, i) ==
    [g EXCEPT !.hearts = g.hearts - 1,
              !.monstersDefeated = g.monstersDefeated + 1,
              !.damageFlash = <<20>>]

\* Mismatched with the heart loss forgotten.
MismatchedKeepsHearts(g, i) ==
    [g EXCEPT !.monsters = Splice(g.monsters, i),
              !.monstersDefeated = g.monstersDefeated + 1,
              !.damageFlash = <<20>>]

Mismatched(g, i) ==
    [g EXCEPT !.monsters = Splice(g.monsters, i),
              !.hearts = g.hearts - 1,
              !.monstersDefeated = g.monstersDefeated + 1,
              !.damageFlash = <<20>>]

\* The "Collision detection" loop of update(), again from the last monster
\* down to the first, against the hero bounds h.
RECURSIVE CollisionLoop(_, _, _)
CollisionLoop(g, i, h) ==
    IF i < 1
    THEN g
    ELSE LET m == g.monsters[i]
         IN  IF Collides(m, h)
             THEN IF h.weapon = Counter(m)
                  THEN CollisionLoop(Matched(g, i), i - 1, h)
                  ELSE CollisionLoop(Mismatched(g, i), i - 1, h)
             ELSE CollisionLoop(g, i - 1, h)

\* The damage flash timer of update().
FlashTick(flash, delta) ==
    IF flash = <<>> THEN flash
    ELSE IF flash[1] - delta <= 0 THEN <<>> ELSE <<flash[1] - delta>>

\* The background scroll of update(), run in every game state.
ScrollBackground(x, delta, speed, cv) ==
    LET moved == x - speed * delta
        bgWidth == cv.width * 1000
    IN  IF moved <= -bgWidth THEN moved + bgWidth ELSE moved

\* SpawnDue without the quota test.
SpawnDueNoQuota(delta) == spawnTimer + delta * 10 >= spawnInterval

\* The spawn test of update() for a frame of length delta.
SpawnDue(delta) ==
    /\ monstersSpawned < monstersToSpawn
    /\ spawnTimer + delta * 10 >= spawnInterval

\* ChoiceDue with the threshold off by one.
ChoiceDueLate(defeated) ==
    /\ ~choiceActive
    /\ defeated > nextChoiceAt
    /\ defeated < monstersToSpawn

\* The "next choice" test of update(), on the defeat count after collisions.
ChoiceDue(defeated) ==
    /\ ~choiceActive
    /\ defeated >= nextChoiceAt
    /\ defeated < monstersToSpawn

\* The "game over" test of update().
GameOver(h) == h <= 0

\* LevelComplete looking at the monster list only.
LevelCompleteListOnly(defeated, ms) == Len(ms) = 0

\* The "level completion" test of update().
LevelComplete(defeated, ms) ==
    /\ defeated >= monstersToSpawn
    /\ Len(ms) = 0

\* The playing branch of update(): the session fields after the frame, given
\* the monster list as the spawn step leaves it.  The three tests at the end
\* assign gameState one after the other, so a later one overrides an earlier.
Playing(delta, spawned) ==
    LET speed == Level(levelIndex).speed
        timer == spawnTimer + delta * 10
        spawn == SpawnDue(delta)
        moved == MoveLoop(spawned, Len(spawned), monstersDefeated, delta, speed)
        hit == CollisionLoop([monsters |-> moved.monsters,
                              hearts |-> hearts,
                              monstersDefeated |-> moved.monstersDefeated,
                              damageFlash |-> damageFlash],
                             Len(moved.monsters), hero)
        choose == ChoiceDue(hit.monstersDefeated)
        state1 == IF choose THEN "choice" ELSE gameState
        state2 == IF GameOver(hit.hearts) THEN "gameOver" ELSE state1
        state3 == IF LevelComplete(hit.monstersDefeated, hit.monsters)
                  THEN "levelEnd" ELSE state2
    IN  [spawnTimer |-> IF spawn THEN 0 ELSE timer,
         monstersSpawned |-> IF spawn THEN monstersSpawned + 1 ELSE monstersSpawned,
         monsters |-> hit.monsters,
         monstersDefeated |-> hit.monstersDefeated,
         hearts |-> hit.hearts,
         damageFlash |-> FlashTick(hit.damageFlash, delta),
         choose |-> choose,
         nextChoiceAt |-> IF choose THEN Min(nextChoiceAt + 3, monstersToSpawn)
                          ELSE nextChoiceAt,
         gameState |-> state3,
         escaped |-> moved.monstersDefeated - monstersDefeated,
         collided |-> hit.monstersDefeated - moved.monstersDefeated]

\* Simulating with the simulation never run: frames only scroll the background.
SimulatingNever == FALSE

\* Simulating with the choice overlay not blocking the simulation.
SimulatingUnderChoice == gameState \in {"playing", "choice"}

\* Simulating with only the game-over screen blocking the simulation.
SimulatingUnlessGameOver == gameState # "gameOver"

\* The test that guards the simulation in update().
Simulating == gameState = "playing"

\* Game.update(delta), as loop() calls it once per animation frame.  The last
\* conjuncts of each branch record what the call did (lastUpdate, idleFrames).
update(delta) ==
    /\ bgX' = ScrollBackground(bgX, delta, Level(levelIndex).speed, canvas)
    /\ IF Simulating
       THEN \E spawned \in (IF SpawnDue(delta) THEN spawnMonster(monsters, canvas)
                              ELSE {monsters}) :
            LET p == Playing(delta, spawned)
            IN  /\ spawnTimer' = p.spawnTimer
                /\ monstersSpawned' = p.monstersSpawned
                /\ monsters' = p.monsters
                /\ monstersDefeated' = p.monstersDefeated
                /\ hearts' = p.hearts
                /\ damageFlash' = p.damageFlash
                /\ nextChoiceAt' = p.nextChoiceAt
                /\ gameState' = p.gameState
                /\ IF p.choose
                   THEN choiceActive' = TRUE /\ randomizeChoices
                   ELSE UNCHANGED <<choiceActive, leftOption, rightOption>>
                /\ lastUpdate' = [from |-> gameState,
                                  spawned |-> p.monstersSpawned - monstersSpawned,
                                  escaped |-> p.escaped,
                                  matched |-> p.collided - (hearts - p.hearts),
                                  mismatched |-> hearts - p.hearts]
       ELSE /\ UNCHANGED <<spawnTimer, monstersSpawned, monsters,
                           monstersDefeated, hearts, damageFlash, nextChoiceAt,
                           gameState, choiceActive, leftOption, rightOption>>
            /\ lastUpdate' = [NoUpdate EXCEPT !.from = gameState]
    /\ idleFrames' = IF gameState = "playing" THEN 0 ELSE idleFrames + 1
    /\ UNCHANGED <<canvas, levelIndex, spawnInterval, monstersToSpawn, hero>>

\* loop(timestamp): one animation frame.  Frames start after Start; draw()
\* changes no state.
Frame ==
    /\ gameState # "intro"
    /\ gameState # "playing" => idleFrames < MaxIdleFrames
    /\ \E delta \in Deltas : update(delta)
    /\ sinceFrame' = <<>>
    /\ UNCHANGED <<loadVars, swVars>>

\* loop(timestamp) with frames that follow each other more closely.
FrameBrief ==
    /\ gameState # "intro"
    /\ gameState # "playing" => idleFrames < MaxIdleFrames
    /\ \E delta \in BriefDeltas : update(delta)
    /\ sinceFrame' = <<>>
    /\ UNCHANGED <<loadVars, swVars>>

\* loop(timestamp) called again after the page was hidden.
FrameLate ==
    /\ gameState # "intro"
    /\ levelIndex <= MaxLateLevel
    /\ gameState # "playing" => idleFrames < MaxIdleFrames
    /\ \E delta \in LateDeltas : update(delta)
    /\ sinceFrame' = <<>>
    /\ UNCHANGED <<loadVars, swVars>>

-----------------------------------------------------------------------------
(* Input *)

\* handleChoiceSelection with the two sides swapped.
handleChoiceSelectionSwapped(choice) ==
    IF gameState # "choice"
    THEN UNCHANGED gameVars
    ELSE /\ hero' = [hero EXCEPT !.weapon = IF choice = "left" THEN rightOption
                                                 ELSE leftOption]
         /\ choiceActive' = FALSE
         /\ gameState' = "playing"
         /\ idleFrames' = 0
         /\ UNCHANGED <<canvas, levelIndex, monsters, spawnTimer, spawnInterval,
                        monstersSpawned, monstersDefeated, monstersToSpawn,
                        nextChoiceAt, hearts, bgX, leftOption, rightOption,
                        damageFlash, lastUpdate>>

\* handleChoiceSelection(choice)
handleChoiceSelection(choice) ==
    IF gameState # "choice"
    THEN UNCHANGED gameVars
    ELSE /\ hero' = [hero EXCEPT !.weapon = IF choice = "left" THEN leftOption
                                                 ELSE rightOption]
         /\ choiceActive' = FALSE
         /\ gameState' = "playing"
         /\ idleFrames' = 0
         /\ UNCHANGED <<canvas, levelIndex, monsters, spawnTimer, spawnInterval,
                        monstersSpawned, monstersDefeated, monstersToSpawn,
                        nextChoiceAt, hearts, bgX, leftOption, rightOption,
                        damageFlash, lastUpdate>>

\* NextLevel replaying the level that has just ended.
NextLevelSame == levelIndex

\* The level started by an advance input in levelEnd.
NextLevel == IF levelIndex < Len(LEVELS) - 1 THEN levelIndex + 1 ELSE 0

\* A pointerdown listener that still applies a selection once the overlay has
\* been answered.
PointerDownLate(half) ==
    IF gameState = "choice" THEN handleChoiceSelection(half)
    ELSE IF gameState = "levelEnd" THEN startLevel(NextLevel)
    ELSE IF gameState = "gameOver" THEN startLevel(0)
    ELSE /\ hero' = [hero EXCEPT !.weapon = IF half = "left" THEN leftOption
                                                 ELSE rightOption]
         /\ UNCHANGED <<canvas, levelIndex, monsters, spawnTimer, spawnInterval,
                        monstersSpawned, monstersDefeated, monstersToSpawn,
                        nextChoiceAt, hearts, bgX, gameState, choiceActive,
                        leftOption, rightOption, damageFlash, idleFrames,
                        lastUpdate>>

\* canvas 'pointerdown' listener; half is the side of the canvas centre the
\* pointer is on (x < canvas.width / 2 is "left").
PointerDown(half) ==
    IF gameState = "choice" THEN handleChoiceSelection(half)
    ELSE IF gameState = "levelEnd" THEN startLevel(NextLevel)
    ELSE IF gameState = "gameOver" THEN startLevel(0)
    ELSE UNCHANGED gameVars

\* window 'keydown' listener.
KeyDown(key) ==
    IF gameState = "choice"
    THEN IF key \in {"ArrowLeft", "a"} THEN handleChoiceSelection("left")
         ELSE IF key \in {"ArrowRight", "d"} THEN handleChoiceSelection("right")
         ELSE UNCHANGED gameVars
    ELSE IF gameState = "levelEnd"
    THEN IF key \in {" ", "Enter"} THEN startLevel(NextLevel)
         ELSE UNCHANGED gameVars
    ELSE IF gameState = "gameOver"
    THEN IF key \in {" ", "Enter"} THEN startLevel(0)
         ELSE UNCHANGED gameVars
    ELSE UNCHANGED gameVars

\* The side a key selects in the keydown listener, "none" for other keys.
KeySide(key) ==
    IF key \in {"ArrowLeft", "a"} THEN "left"
    ELSE IF key \in {"ArrowRight", "d"} THEN "right"
    ELSE "none"

\* sinceFrame after a selection input for side: inputs are noted from the
\* first one delivered during a choice until the next frame.
Noted(side) ==
    IF side # "none" /\ (gameState = "choice" \/ sinceFrame # <<>>)
    THEN Append(sinceFrame, side)
    ELSE sinceFrame

\* Input callbacks run between frames once the game object exists.
Pointer ==
    /\ gameState # "intro"
    /\ \E half \in Sides : PointerDown(half)
    /\ UNCHANGED <<sinceFrame, loadVars, swVars>>

Key ==
    /\ gameState # "intro"
    /\ \E key \in Keys : KeyDown(key)
    /\ UNCHANGED <<sinceFrame, loadVars, swVars>>

\* window 'resize' listener: resize().
resize(size) ==
    /\ canvas' = size
    /\ UNCHANGED <<levelIndex, monsters, spawnTimer, spawnInterval,
                   monstersSpawned, monstersDefeated, monstersToSpawn,
                   nextChoiceAt, hearts, hero, bgX, gameState, choiceActive,
                   leftOption, rightOption, damageFlash, idleFrames, lastUpdate>>

Resize ==
    /\ levelIndex <= MaxResizeLevel
    /\ \E size \in ResizedSizes : resize(size)
    /\ UNCHANGED <<sinceFrame, loadVars, swVars>>

\* The same callbacks with the selection inputs noted in sinceFrame.
PointerNoted ==
    /\ gameState # "intro"
    /\ Len(sinceFrame) < MaxSelections
    /\ \E half \in Sides : PointerDown(half) /\ sinceFrame' = Noted(half)
    /\ UNCHANGED <<loadVars, swVars>>

KeyNoted ==
    /\ gameState # "intro"
    /\ Len(sinceFrame) < MaxSelections
    /\ \E key \in Keys : KeyDown(key) /\ sinceFrame' = Noted(KeySide(key))
    /\ UNCHANGED <<loadVars, swVars>>

-----------------------------------------------------------------------------
(* Asset loader *)

\* The state loadImages(list) leaves when it returns: one Image per name with
\* its callbacks registered, none of them fired.
Loading(list) ==
    /\ assetList = list
    /\ images = [name \in {} |-> 0]
    /\ loaded = 0
    /\ pending = DOMAIN list
    /\ resolveCalls = 0
    /\ resolved = <<>>

\* The state once every image of list has loaded.
Loaded(list) ==
    /\ assetList = list
    /\ images = [name \in DOMAIN list |-> [src |-> list[name], complete |-> TRUE]]
    /\ loaded = Cardinality(DOMAIN list)
    /\ pending = {}
    /\ resolveCalls = 1
    /\ resolved = <<images>>

\* The test of the callback resolving one callback early.
AllSettledEarly(count, list) == count >= Cardinality(DOMAIN list) - 1

\* loaded === total, total being the number of keys of the mapping.
AllSettled(count, list) == count = Cardinality(DOMAIN list)

\* img.onload = img.onerror = () => {...} of the image of key; ok tells
\* whether it is the load or the error event.  An image fires one of the two,
\* once.
Settle(key, ok) ==
    /\ key \in pending
    /\ pending' = pending \ {key}
    /\ images' = [name \in DOMAIN images \cup {key} |->
                     IF name = key THEN [src |-> assetList[key], complete |-> ok]
                     ELSE images[name]]
    /\ loaded' = loaded + 1
    /\ IF AllSettled(loaded', assetList)
       THEN /\ resolveCalls' = resolveCalls + 1
            /\ resolved' = IF resolved = <<>> THEN <<images'>> ELSE resolved
       ELSE UNCHANGED <<resolveCalls, resolved>>
    /\ UNCHANGED assetList

OnLoad ==
    /\ \E key \in DOMAIN assetList : Settle(key, TRUE)
    /\ UNCHANGED <<gameVars, sinceFrame, swVars>>

OnError ==
    /\ \E key \in DOMAIN assetList : Settle(key, FALSE)
    /\ UNCHANGED <<gameVars, sinceFrame, swVars>>

-----------------------------------------------------------------------------
(* Service worker *)

\* No worker registered and no cache in the origin.
Unregistered ==
    /\ swState = "parsed"
    /\ installStep = "none"
    /\ activateStep = "none"
    /\ cacheStorage = [name \in {} |-> {}]
    /\ deleting = {}
    /\ preexisting = {}
    /\ deleted = {}
    /\ fetchEvent = <<>>
    /\ fetchLog = {}

\* The worker script has been parsed; the origin holds any caches.
Registered ==
    /\ swState = "parsed"
    /\ installStep = "none"
    /\ activateStep = "none"
    /\ \E names \in SUBSET CacheNames :
           cacheStorage \in [names -> SUBSET StaleFiles]
    /\ deleting = {}
    /\ preexisting = DOMAIN cacheStorage
    /\ deleted = {}
    /\ fetchEvent = <<>>
    /\ fetchLog = {}

\* The elements of a list.
Range(list) == {list[i] : i \in 1..Len(list)}

\* caches.open(name): the cache is created when it does not exist.
Open(storage, name) ==
    [n \in DOMAIN storage \cup {name} |->
        IF n \in DOMAIN storage THEN storage[n] ELSE {}]

\* 'install' listener: caches.open(CACHE_NAME) is called and its promise
\* chain is given to event.waitUntil; nothing has happened to the caches when
\* the listener returns.
Install ==
    /\ swState = "parsed"
    /\ installStep = "none"
    /\ installStep' = "open"
    /\ UNCHANGED <<swState, activateStep, cacheStorage, deleting, preexisting,
                   deleted, fetchEvent, fetchLog>>

\* caches.open(CACHE_NAME) settles.  When it resolves the cache exists, empty
\* if it was created, and the callback calls cache.addAll(FILES_TO_CACHE);
\* when it rejects no cache is created and the install fails.
InstallOpened(ok) ==
    /\ installStep = "open"
    /\ IF ok
       THEN /\ cacheStorage' = Open(cacheStorage, CACHE_NAME)
            /\ installStep' = "addAll"
            /\ UNCHANGED swState
       ELSE /\ swState' = "redundant"
            /\ installStep' = "none"
            /\ UNCHANGED cacheStorage
    /\ UNCHANGED <<activateStep, deleting, preexisting, deleted, fetchEvent,
                   fetchLog>>

\* cache.addAll(FILES_TO_CACHE) settles: it stores all the responses or, when
\* a request fails, none; with it the promise given to waitUntil settles and
\* the worker is installed or discarded.
InstallAdded(ok) ==
    /\ installStep = "addAll"
    /\ installStep' = "none"
    /\ cacheStorage' =
           IF ok
           THEN [cacheStorage EXCEPT ![CACHE_NAME] = @ \cup Range(FILES_TO_CACHE)]
           ELSE cacheStorage
    /\ swState' = IF ok THEN "installed" ELSE "redundant"
    /\ UNCHANGED <<activateStep, deleting, preexisting, deleted, fetchEvent,
                   fetchLog>>

\* The test of the activate listener with every cache taken for stale.
StaleAny(name) == TRUE

\* The test of the activate listener: cache !== CACHE_NAME.
Stale(name) == name # CACHE_NAME

\* 'activate' listener: caches.keys() is called and its promise chain is
\* given to event.waitUntil; no caches.delete has been called when the
\* listener returns.
Activate ==
    /\ swState = "installed"
    /\ swState' = "activating"
    /\ activateStep' = "keys"
    /\ UNCHANGED <<installStep, cacheStorage, deleting, preexisting, deleted,
                   fetchEvent, fetchLog>>

\* caches.keys() settles.  When it resolves its callback calls caches.delete
\* for every stale name of the list and hands the promises to Promise.all;
\* when it rejects the callback does not run, no delete is started and the
\* promise given to waitUntil is rejected.
ActivateKeys(ok) ==
    /\ activateStep = "keys"
    /\ IF ok
       THEN /\ deleting' = {name \in DOMAIN cacheStorage : Stale(name)}
            /\ activateStep' = "deletes"
       ELSE /\ activateStep' = "rejected"
            /\ UNCHANGED deleting
    /\ UNCHANGED <<swState, installStep, cacheStorage, preexisting, deleted,
                   fetchEvent, fetchLog>>

\* One caches.delete(name) settles.  When it resolves the cache is gone; when
\* it rejects the cache stays and Promise.all, with it the promise given to
\* waitUntil, is rejected at once: the other deletions stay in flight and
\* settle later.
Delete(name, ok) ==
    /\ name \in deleting
    /\ deleting' = deleting \ {name}
    /\ IF ok
       THEN /\ cacheStorage' =
                   [n \in DOMAIN cacheStorage \ {name} |-> cacheStorage[n]]
            /\ deleted' = deleted \cup {name}
            /\ UNCHANGED activateStep
       ELSE /\ activateStep' =
                   IF activateStep = "deletes" THEN "rejected" ELSE activateStep
            /\ UNCHANGED <<cacheStorage, deleted>>
    /\ UNCHANGED <<swState, installStep, preexisting, fetchEvent, fetchLog>>

\* The promise given to waitUntil has settled and the worker becomes active:
\* Promise.all resolves when every deletion has resolved, and the activate
\* step is complete; after a rejection the worker is activated all the same.
Activated ==
    /\ swState = "activating"
    /\ \/ activateStep = "deletes" /\ deleting = {}
       \/ activateStep = "rejected"
    /\ swState' = "activated"
    /\ activateStep' =
           IF activateStep = "rejected" THEN "rejected" ELSE "fulfilled"
    /\ UNCHANGED <<installStep, cacheStorage, deleting, preexisting, deleted,
                   fetchEvent, fetchLog>>

\* caches.match(request): some cache of the origin holds the URL.
Match(url) == \E name \in DOMAIN cacheStorage : url \in cacheStorage[name]

\* The fetch listener going to the network whatever the cache holds.
NeedsNetworkAlways(url) == TRUE

\* response || fetch(event.request): the network is asked when caches.match
\* found nothing.
NeedsNetwork(url) == ~Match(url)

\* 'fetch' listener: the event arrives and caches.match is started.
Fetch(url) ==
    /\ swState = "activated"
    /\ fetchEvent = <<>>
    /\ fetchEvent' = <<[request |-> url, phase |-> "match", network |-> 0]>>
    /\ UNCHANGED <<swState, installStep, activateStep, cacheStorage, deleting,
                   preexisting, deleted, fetchLog>>

\* caches.match settles.  When it resolves its callback answers from the
\* cache or starts fetch(); when it rejects the callback does not run, the
\* promise given to respondWith is rejected and the event is answered with
\* an error, no network request made.
CacheAnswer(ok) ==
    /\ fetchEvent # <<>>
    /\ fetchEvent[1].phase = "match"
    /\ IF ok /\ NeedsNetwork(fetchEvent[1].request)
       THEN /\ fetchEvent' = <<[fetchEvent[1] EXCEPT !.phase = "network",
                                                      !.network = @ + 1]>>
            /\ UNCHANGED fetchLog
       ELSE /\ fetchEvent' = <<>>
            /\ fetchLog' = fetchLog \cup
                   {[request |-> fetchEvent[1].request,
                     response |-> IF ok THEN "cache" ELSE "error",
                     network |-> fetchEvent[1].network]}
    /\ UNCHANGED <<swState, installStep, activateStep, cacheStorage, deleting,
                   preexisting, deleted>>

\* fetch(event.request) settles: its response, or its failure, is the answer.
NetworkDone(ok) ==
    /\ fetchEvent # <<>>
    /\ fetchEvent[1].phase = "network"
    /\ fetchEvent' = <<>>
    /\ fetchLog' = fetchLog \cup
           {[request |-> fetchEvent[1].request,
             response |-> IF ok THEN "network" ELSE "error",
             network |-> fetchEvent[1].network]}
    /\ UNCHANGED <<swState, installStep, activateStep, cacheStorage, deleting,
                   preexisting, deleted>>

OnInstall ==
    /\ Install
    /\ UNCHANGED <<gameVars, sinceFrame, loadVars>>

OnInstallOpened ==
    /\ \E ok \in BOOLEAN : InstallOpened(ok)
    /\ UNCHANGED <<gameVars, sinceFrame, loadVars>>

OnInstallAdded ==
    /\ \E ok \in BOOLEAN : InstallAdded(ok)
    /\ UNCHANGED <<gameVars, sinceFrame, loadVars>>

OnActivate ==
    /\ Activate
    /\ UNCHANGED <<gameVars, sinceFrame, loadVars>>

OnActivateKeys ==
    /\ \E ok \in BOOLEAN : ActivateKeys(ok)
    /\ UNCHANGED <<gameVars, sinceFrame, loadVars>>

OnDelete ==
    /\ \E name \in CacheNames, ok \in BOOLEAN : Delete(name, ok)
    /\ UNCHANGED <<gameVars, sinceFrame, loadVars>>

OnActivated ==
    /\ Activated
    /\ UNCHANGED <<gameVars, sinceFrame, loadVars>>

OnFetch ==
    /\ \E url \in RequestUrls : Fetch(url)
    /\ UNCHANGED <<gameVars, sinceFrame, loadVars>>

OnMatch ==
    /\ \E ok \in BOOLEAN : CacheAnswer(ok)
    /\ UNCHANGED <<gameVars, sinceFrame, loadVars>>

OnNetwork ==
    /\ \E ok \in BOOLEAN : NetworkDone(ok)
    /\ UNCHANGED <<gameVars, sinceFrame, loadVars>>

-----------------------------------------------------------------------------
(* Specifications *)

\* The game: the images of ASSETS have loaded and the callback of
\* loadImages(ASSETS).then is about to run.
Init == GameInit /\ Loaded(ASSETS) /\ Unregistered

Next == Start \/ Frame \/ Pointer \/ Key

Spec == Init /\ [][Next]_vars

\* The session with the selection inputs between frames on record.
NextNoted == Start \/ Frame \/ PointerNoted \/ KeyNoted

SpecNoted == Init /\ [][NextNoted]_vars

\* The player answers a choice overlay, by pointer or by key.
Answer == gameState = "choice" /\ (Pointer \/ Key)

\* A frame can run: every call of loop() requests the next one.  Frame is then
\* enabled and changes the state (idleFrames while paused, spawnTimer or
\* monstersSpawned while playing), so FrameDue is ENABLED <<Frame>>_vars.
FrameDue ==
    /\ gameState # "intro"
    /\ gameState # "playing" => idleFrames < MaxIdleFrames

\* WF_vars(Frame), with ENABLED <<Frame>>_vars written as FrameDue: frames
\* keep arriving.
FramesArrive == []<>(~FrameDue) \/ []<><<Frame>>_vars

\* The session with its scheduling: the browser keeps calling loop(), and the
\* player answers every choice overlay sooner or later.
SpecLive == Init /\ [][Next]_vars /\ FramesArrive /\ WF_vars(Answer)

\* The session with resize events.
NextResize == Start \/ Frame \/ Pointer \/ Key \/ Resize

SpecResize == Init /\ [][NextResize]_vars

\* The session with frames shorter than the damage flash.
NextBrief == Start \/ FrameBrief \/ Pointer \/ Key

SpecBrief == Init /\ [][NextBrief]_vars

\* The session with the page hidden now and then.
NextLate == Start \/ Frame \/ FrameLate \/ Pointer \/ Key

SpecLate == Init /\ [][NextLate]_vars

\* loadImages(ASSETS), the one call of the program, has returned; the
\* callbacks of its six images arrive in any order.
InitLoad ==
    /\ GameInit
    /\ Unregistered
    /\ Loading(ASSETS)

NextLoad == OnLoad \/ OnError

SpecLoad == InitLoad /\ [][NextLoad]_vars

\* The life of the service worker from its installation on.
InitWorker == GameInit /\ Loaded(ASSETS) /\ Registered

NextWorker ==
    OnInstall \/ OnInstallOpened \/ OnInstallAdded \/ OnActivate
        \/ OnActivateKeys \/ OnDelete \/ OnActivated \/ OnFetch \/ OnMatch
        \/ OnNetwork

SpecWorker == InitWorker /\ [][NextWorker]_vars

-----------------------------------------------------------------------------
(* Properties *)

\* C1: in every reachable state hearts is at least 0 and at most 3, also
\* after frames in which several monsters collide with the hero at once.
C1_HeartsInRange == hearts \in 0..3

\* C2: whenever a playing-state update ends with hearts equal to 0 the game
\* state at the end of that update is gameOver, also when the same update
\* completed the level.  (hearts is 0 only from such an update until the next
\* startLevel, so this is an invariant.)
C2_GameOverOnZeroHearts == hearts = 0 => gameState = "gameOver"

\* C3: the state becomes levelEnd only at the end of a playing-state update
\* after which monstersDefeated equals monstersToSpawn and the list is empty
\* (so nothing is unspawned or on screen), and every playing-state update
\* that ends with that condition leaves the state levelEnd.
C3_LevelEnd ==
    [][ /\ (gameState' = "levelEnd" /\ gameState # "levelEnd")
           => /\ gameState = "playing"
              /\ monstersDefeated' = monstersToSpawn'
              /\ monstersSpawned' = monstersToSpawn'
              /\ monsters' = <<>>
        /\ (gameState = "playing" /\ monstersDefeated' = monstersToSpawn'
                /\ monsters' = <<>>)
           => gameState' = "levelEnd" ]_vars

C3_Witness ==
    /\ gameState = "levelEnd"
    /\ lastUpdate.from = "playing"
    /\ lastUpdate.matched + lastUpdate.mismatched + lastUpdate.escaped >= 1
    /\ monstersDefeated = monstersToSpawn
    /\ monsters = <<>>

\* C4: in a playing-state update every monster that overlaps the hero's hit
\* box after moving is removed and adds exactly 1 to monstersDefeated; it
\* takes exactly 1 heart when the hero's weapon is not the one the monster
\* requires and none when it is.  The effect is stated by counting the moved
\* monsters, not by running the loops.
C4_CollisionEffects ==
    [][ gameState = "playing" =>
        \E delta \in Deltas :
        \E spawned \in (IF monstersSpawned' > monstersSpawned
                        THEN spawnMonster(monsters, canvas) ELSE {monsters}) :
            LET mv == [i \in 1..Len(spawned) |->
                         MonsterUpdate(spawned[i], delta, Level(levelIndex).speed)]
                gone == {i \in 1..Len(spawned) : offscreen(mv[i])}
                hits == {i \in 1..Len(spawned) : ~offscreen(mv[i]) /\ Collides(mv[i], hero)}
                wrong == {i \in hits : mv[i].required # hero.weapon}
            IN  /\ hearts' = hearts - Cardinality(wrong)
                /\ monstersDefeated' =
                       monstersDefeated + Cardinality(gone) + Cardinality(hits)
                /\ monsters' = SelectSeq(mv, LAMBDA m :
                                   ~offscreen(m) /\ ~Collides(m, hero)) ]_vars

\* One frame resolved a matching and a mismatching collision.
C4_Witness ==
    /\ lastUpdate.from = "playing"
    /\ lastUpdate.matched >= 1
    /\ lastUpdate.mismatched >= 1

\* C5: from startLevel on, monstersToSpawn is the level's monsterCount and
\* monstersSpawned never exceeds it; once the quota is spawned a playing
\* frame adds no monster, whatever the spawn timer.
C5_SpawnQuota ==
    /\ [](gameState # "intro" =>
            /\ monstersToSpawn = Level(levelIndex).monsterCount
            /\ monstersSpawned <= monstersToSpawn)
    /\ [][ (gameState = "playing" /\ monstersSpawned = monstersToSpawn)
           => /\ monstersSpawned' = monstersSpawned
              /\ Len(monsters') <= Len(monsters) ]_vars

\* The quota of the last level is spawned and the timer has run past the
\* spawn interval without a spawn.
C5_Witness ==
    /\ levelIndex = 9
    /\ monstersSpawned = monstersToSpawn
    /\ lastUpdate.from = "playing"
    /\ lastUpdate.spawned = 0
    /\ spawnTimer >= spawnInterval

\* C6: monstersDefeated never exceeds monstersToSpawn, whether monsters were
\* resolved by collision or left the screen.
C6_DefeatedWithinQuota == monstersDefeated <= monstersToSpawn

\* The last monster of a level escaped, after at least one collision that
\* cost a heart.
C6_Witness ==
    /\ gameState = "levelEnd"
    /\ monstersDefeated = monstersToSpawn
    /\ lastUpdate.escaped >= 1
    /\ hearts < 3

\* C7 (as claimed): a playing-state update re-enters choice exactly when no
\* choice is pending and monstersDefeated has reached nextChoiceAt and is
\* still below the quota.
C7_ChoiceWheneverDue ==
    [][ gameState = "playing" =>
        ( gameState' = "choice"
          <=> (/\ ~choiceActive
               /\ monstersDefeated' >= nextChoiceAt
               /\ monstersDefeated' < monstersToSpawn) ) ]_vars

\* C7 (amended): a playing-state update re-enters choice exactly when no
\* choice is pending, monstersDefeated has reached nextChoiceAt and is below
\* the quota, and hearts is still above 0 (otherwise the update ends in
\* gameOver); whenever the first three hold, nextChoiceAt becomes
\* min(nextChoiceAt + 3, quota), choiceActive is set and the options are one
\* of the two arrangements; otherwise they are left alone.  startLevel sets
\* nextChoiceAt to min(3, quota).  A choice is never entered at or after the
\* quota-th defeat, and on level 0 reaching the 3rd defeat with hearts left
\* enters choice.
C7_ChoiceWhenDueAndAlive ==
    [][ /\ gameState = "playing" =>
           LET due == /\ ~choiceActive
                      /\ monstersDefeated' >= nextChoiceAt
                      /\ monstersDefeated' < monstersToSpawn
           IN  /\ gameState' = "choice" <=> (due /\ hearts' > 0)
               /\ due => /\ nextChoiceAt' = Min(nextChoiceAt + 3, monstersToSpawn)
                         /\ choiceActive'
                         /\ <<leftOption', rightOption'>> \in
                                {<<"sword", "magic">>, <<"magic", "sword">>}
               /\ ~due => UNCHANGED <<nextChoiceAt, choiceActive, leftOption,
                                      rightOption>>
               /\ gameState' = "choice" => /\ monstersDefeated' >= 3
                                           /\ monstersDefeated' < monstersToSpawn
               /\ (levelIndex = 0 /\ monstersDefeated < 3
                     /\ monstersDefeated' >= 3 /\ hearts' > 0)
                  => gameState' = "choice"
        /\ (gameState \in {"intro", "levelEnd", "gameOver"}
              /\ gameState' = "choice")
           => nextChoiceAt' = Min(3, monstersToSpawn') ]_vars

\* A later choice of a level: entered by a playing frame at the 6th defeat
\* or after, with the threshold moved on to 9.
C7_Witness ==
    /\ gameState = "choice"
    /\ lastUpdate.from = "playing"
    /\ monstersDefeated >= 6
    /\ nextChoiceAt = 9

\* C8: between atomic steps the game state changes only along intro->choice,
\* choice->playing, playing->choice, playing->levelEnd, playing->gameOver,
\* levelEnd->choice and gameOver->choice.
C8_StateEdges ==
    [][ gameState' # gameState =>
        <<gameState, gameState'>> \in
            { <<"intro", "choice">>, <<"choice", "playing">>,
              <<"playing", "choice">>, <<"playing", "levelEnd">>,
              <<"playing", "gameOver">>, <<"levelEnd", "choice">>,
              <<"gameOver", "choice">> } ]_vars

\* A restart: the last frame ran on the game-over screen and the session is
\* back in the first choice of level 0.
C8_Witness ==
    /\ gameState = "choice"
    /\ lastUpdate.from = "gameOver"
    /\ levelIndex = 0
    /\ monstersSpawned = 0

\* C9: a selection acts only in choice: there a pointer on either half or a
\* left/right key sets the hero's weapon to the option of that side, clears
\* choiceActive and sets the state to playing, leaving hearts, the counters
\* and the monster list alone; in any other state neither
\* handleChoiceSelection nor a selection key can change anything.
C9_Selection ==
    /\ [](gameState # "choice" =>
            /\ \A side \in Sides :
                   ~ENABLED (handleChoiceSelection(side) /\ gameVars' # gameVars)
            /\ \A key \in {"ArrowLeft", "a", "ArrowRight", "d"} :
                   ~ENABLED (KeyDown(key) /\ gameVars' # gameVars))
    /\ [][ gameState = "choice" =>
           \A side \in Sides :
               ( \/ PointerDown(side)
                 \/ handleChoiceSelection(side)
                 \/ (side = "left" /\ (KeyDown("ArrowLeft") \/ KeyDown("a")))
                 \/ (side = "right" /\ (KeyDown("ArrowRight") \/ KeyDown("d"))) )
               => /\ hero' = [hero EXCEPT !.weapon =
                                 IF side = "left" THEN leftOption ELSE rightOption]
                  /\ choiceActive' = FALSE
                  /\ gameState' = "playing"
                  /\ UNCHANGED <<hearts, monstersSpawned, monstersDefeated,
                                 monstersToSpawn, nextChoiceAt, monsters,
                                 spawnTimer, levelIndex>> ]_vars

\* A selection made in mid-level: a frame ran during the choice, the game is
\* playing again with monsters on screen and the wand in hand.
C9_Witness ==
    /\ gameState = "playing"
    /\ lastUpdate.from = "choice"
    /\ Len(monsters) > 0
    /\ hero.weapon = "magic"

\* C10: a frame update in choice, levelEnd or gameOver leaves hearts,
\* monstersSpawned, monstersDefeated, nextChoiceAt, the spawn timer, the
\* monster list, the hero's weapon and the game state as they were.
C10_PausedFrame ==
    [][ (gameState \in Paused /\ Frame)
        => UNCHANGED <<hearts, monstersSpawned, monstersDefeated, nextChoiceAt,
                       spawnTimer, monsters, hero, gameState>> ]_vars

\* A frame has run during a choice with monsters on screen.
C10_Witness ==
    /\ gameState = "choice"
    /\ lastUpdate.from = "choice"
    /\ Len(monsters) > 0

\* C11: an advance input (pointer-down on either half, Space or Enter) in
\* levelEnd starts level levelIndex + 1 below level 9 and level 0 at level 9;
\* in gameOver it starts level 0; nothing else leaves these two states, and
\* levelIndex stays within 0..9.
C11_Advance ==
    /\ [](levelIndex \in 0..9)
    /\ [](gameState \in {"levelEnd", "gameOver"} =>
            /\ \A half \in Sides :
                   ENABLED (PointerDown(half) /\ gameState' = "choice")
            /\ \A key \in {" ", "Enter"} :
                   ENABLED (KeyDown(key) /\ gameState' = "choice")
            /\ \A key \in Keys \ {" ", "Enter"} :
                   ~ENABLED (KeyDown(key) /\ gameVars' # gameVars))
    /\ [][ /\ (gameState = "levelEnd" /\ gameState' # "levelEnd")
              => /\ gameState' = "choice"
                 /\ levelIndex' = IF levelIndex < 9 THEN levelIndex + 1 ELSE 0
                 /\ monstersToSpawn' = LEVELS[levelIndex' + 1].monsterCount
           /\ (gameState = "gameOver" /\ gameState' # "gameOver")
              => /\ gameState' = "choice"
                 /\ levelIndex' = 0
                 /\ monstersToSpawn' = LEVELS[1].monsterCount ]_vars

\* The wrap after the last level: the last frame ran on a level-end screen
\* and the session is in the first choice of level 0.
C11_Witness ==
    /\ gameState = "choice"
    /\ lastUpdate.from = "levelEnd"
    /\ levelIndex = 0
    /\ monstersSpawned = 0

\* C14 (as stated): when two selections for different sides arrive between
\* two frames, starting in the choice state, the hero's weapon seen by the
\* next update is the option of the later selection.
C14_LastSelectionWins ==
    (Len(sinceFrame) = 2 /\ sinceFrame[1] # sinceFrame[2])
        => hero.weapon = IF sinceFrame[2] = "left" THEN leftOption
                                                   ELSE rightOption

\* C14 (amended): of the selections that arrive between two frames, starting
\* in the choice state, the first one wins: until the next update the hero's
\* weapon is the option of the first selection, the overlay is closed and the
\* state is playing, whatever selections follow.
C14_FirstSelectionWins ==
    sinceFrame # <<>>
        => /\ hero.weapon = IF sinceFrame[1] = "left" THEN leftOption
                                                      ELSE rightOption
           /\ gameState = "playing"
           /\ choiceActive = FALSE

\* Two selections for different sides have arrived since the last frame.
C14_Witness ==
    /\ Len(sinceFrame) = 2
    /\ sinceFrame[1] # sinceFrame[2]
    /\ gameState = "playing"

\* C17: in a playing-state update the monsters whose right edge is left of the
\* screen after moving (x + width < 0) are removed, each adds exactly 1 to
\* monstersDefeated and none of them takes a heart: hearts are lost to the
\* colliding monsters that stay on screen only, and no monster that has left
\* the screen overlaps the hero's hit box.
C17_EscapeEffects ==
    [][ gameState = "playing" =>
        \E delta \in Deltas :
        \E spawned \in (IF monstersSpawned' > monstersSpawned
                        THEN spawnMonster(monsters, canvas) ELSE {monsters}) :
            LET mv == [i \in 1..Len(spawned) |->
                         MonsterUpdate(spawned[i], delta, Level(levelIndex).speed)]
                gone == {i \in 1..Len(spawned) : mv[i].x + mv[i].width < 0}
                stay == (1..Len(spawned)) \ gone
                hits == {i \in stay : Collides(mv[i], hero)}
                wrong == {i \in hits : mv[i].required # hero.weapon}
            IN  /\ \A i \in gone : ~Collides(mv[i], hero)
                /\ \A k \in 1..Len(monsters') :
                       monsters'[k].x + monsters'[k].width >= 0
                /\ Len(monsters') = Len(spawned) - Cardinality(gone)
                                                 - Cardinality(hits)
                /\ monstersDefeated' = monstersDefeated + Cardinality(gone)
                                                        + Cardinality(hits)
                /\ hearts' = hearts - Cardinality(wrong)
                /\ hits = {} => hearts' = hearts ]_vars

\* A playing frame in which a monster left the screen and none collided.
C17_Witness ==
    /\ lastUpdate.from = "playing"
    /\ lastUpdate.escaped >= 1
    /\ lastUpdate.matched = 0
    /\ lastUpdate.mismatched = 0

\* C12: resolve is called at most once, never while a callback is still
\* outstanding, with an entry for every name of the mapping, and once every
\* entry of the mapping has loaded or failed the promise is resolved.
C12_ResolvesOnceAllSettled ==
    /\ resolveCalls <= 1
    /\ resolved # <<>> =>
           /\ pending = {}
           /\ DOMAIN resolved[1] = DOMAIN assetList
           /\ \A name \in DOMAIN assetList :
                  resolved[1][name].src = assetList[name]
    /\ pending = {} => resolveCalls = 1 /\ resolved # <<>>

\* The six images have settled, some loaded and some failed, and the promise
\* is resolved with the failed ones among its entries.
C12_Witness ==
    /\ Cardinality(DOMAIN assetList) = 6
    /\ pending = {}
    /\ resolved # <<>>
    /\ \E name \in DOMAIN resolved[1] : resolved[1][name].complete
    /\ \E name \in DOMAIN resolved[1] : ~resolved[1][name].complete

\* C15: once the activate step is complete, the promise given to waitUntil
\* fulfilled, every cache that existed before and is not CACHE_NAME is gone,
\* activate has deleted exactly those, and the cache CACHE_NAME is still
\* there; and from install on no step removes CACHE_NAME or touches its
\* content.
C15_ActivatePurges ==
    /\ [](swState = "activated" /\ activateStep = "fulfilled" =>
            /\ \A name \in preexisting :
                   name # "run-choose-root-cache-v1" => name \notin DOMAIN cacheStorage
            /\ deleted = preexisting \ {"run-choose-root-cache-v1"}
            /\ "run-choose-root-cache-v1" \in DOMAIN cacheStorage)
    /\ [][(swState = "installed" \/ swState = "activating"
              \/ swState = "activated") =>
            /\ "run-choose-root-cache-v1" \in DOMAIN cacheStorage'
            /\ cacheStorage'["run-choose-root-cache-v1"] =
                   cacheStorage["run-choose-root-cache-v1"] ]_vars

\* Activation completed in an origin that held the current cache and two
\* others before install.
C15_Witness ==
    /\ swState = "activated"
    /\ activateStep = "fulfilled"
    /\ preexisting = CacheNames
    /\ Cardinality(deleted) = 2

\* C16: when the lookup of a fetch event settles and some cache holds the
\* URL, the event is answered from the cache without a network request; when
\* no cache holds it, the network is asked, once, and its outcome is the
\* answer; only a lookup that fails itself ends the event with an error and
\* no request; and no step of the fetch handler changes the caches.
C16_CacheFirst ==
    /\ [][(fetchEvent # <<>> /\ fetchEvent' # fetchEvent) =>
            IF fetchEvent[1].phase = "match"
            THEN IF \E name \in DOMAIN cacheStorage :
                        fetchEvent[1].request \in cacheStorage[name]
                 THEN /\ fetchEvent' = <<>>
                      /\ \E answer \in {"cache", "error"} :
                            fetchLog' = fetchLog \cup
                                {[request |-> fetchEvent[1].request,
                                  response |-> answer, network |-> 0]}
                 ELSE \/ /\ fetchEvent' =
                               <<[request |-> fetchEvent[1].request,
                                  phase |-> "network", network |-> 1]>>
                         /\ fetchLog' = fetchLog
                      \/ /\ fetchEvent' = <<>>
                         /\ fetchLog' = fetchLog \cup
                                {[request |-> fetchEvent[1].request,
                                  response |-> "error", network |-> 0]}
            ELSE /\ fetchEvent[1].network = 1
                 /\ fetchEvent' = <<>>
                 /\ \E answer \in {"network", "error"} :
                       fetchLog' = fetchLog \cup
                           {[request |-> fetchEvent[1].request,
                             response |-> answer, network |-> 1]} ]_vars
    /\ [](\A e \in fetchLog : e.response = "cache" => e.network = 0)
    /\ [][(fetchEvent' # fetchEvent \/ fetchLog' # fetchLog) =>
            cacheStorage' = cacheStorage]_vars

\* One event has been answered from the cache, one from the network, and one
\* for a file install does not store, cached before, was answered from the
\* cache.
C16_Witness ==
    /\ \E e \in fetchLog : e.response = "cache" /\ e.request = "/old.png"
    /\ \E e \in fetchLog : e.response = "cache" /\ e.request = "/index.html"
    /\ \E e \in fetchLog : e.response = "network"

\* C13: once the game exists the hero's size and position are the ones
\* resetPosition derives from the current canvas, after a resize event as
\* after a level start: width = height = 0.15 * canvas.height,
\* x = 0.1 * canvas.width, y = canvas.height - height - 0.1 * canvas.height.
C13_HeroFollowsCanvas ==
    gameState # "intro" =>
        /\ hero.width = 150 * canvas.height
        /\ hero.height = 150 * canvas.height
        /\ hero.x = 100 * canvas.width
        /\ hero.y = 1000 * canvas.height - hero.height - 100 * canvas.height

\* C18: every startLevel(i), from the intro, a level-end or a game-over
\* screen, leaves the same fresh state for level i: the listed fields have
\* their level-start values and the damage flash timer is as undefined as
\* after the first start, so that nothing of the previous level is left.
C18_FreshLevel ==
    [][ ((gameState = "intro" \/ gameState = "levelEnd" \/ gameState = "gameOver")
            /\ gameState' = "choice")
        => /\ hearts' = 3
           /\ monstersSpawned' = 0
           /\ monstersDefeated' = 0
           /\ monsters' = <<>>
           /\ spawnTimer' = 0
           /\ spawnInterval' = Max(400, 1000 - 50 * levelIndex')
           /\ monstersToSpawn' = LEVELS[levelIndex' + 1].monsterCount
           /\ nextChoiceAt' = Min(3, monstersToSpawn')
           /\ hero'.weapon = "sword"
           /\ choiceActive' = TRUE
           /\ bgX' = 0
           /\ damageFlash' = <<>> ]_vars

\* C20: after every frame update the background offset lies within one
\* background width: -bgWidth < bgX <= 0, bgWidth being canvas.width.
C20_ScrollWraps ==
    lastUpdate.from # "none" => -(canvas.width * 1000) < bgX /\ bgX <= 0

\* C19: with frames arriving and every choice overlay answered, a level that
\* has been started ends: from the choice and playing states the session
\* reaches levelEnd or gameOver.
C19_LevelEnds ==
    (gameState = "choice" \/ gameState = "playing")
        ~> (gameState = "levelEnd" \/ gameState = "gameOver")

\* The last level ended after its whole quota was spawned and removed, some of
\* it by leaving the screen.
C19_Witness ==
    /\ gameState = "levelEnd"
    /\ levelIndex = 9
    /\ monstersSpawned = 25
    /\ monstersDefeated = 25
    /\ monsters = <<>>
    /\ lastUpdate.escaped >= 1

\* C21: monster conservation.  In every state monstersSpawned is
\* monstersDefeated plus the length of the monster list; in an update the
\* defeat count grows by exactly the number of monsters that left the list
\* (those there before plus the one spawned, minus those there after), and
\* within a level neither counter ever decreases.
C21_Conservation ==
    /\ [](monstersSpawned = monstersDefeated + Len(monsters))
    /\ [][ gameState = "playing" =>
             /\ monstersSpawned' - monstersSpawned \in {0, 1}
             /\ monstersDefeated' >= monstersDefeated
             /\ monstersDefeated' - monstersDefeated =
                    Len(monsters) + (monstersSpawned' - monstersSpawned)
                        - Len(monsters') ]_vars

\* A playing frame spawned a monster and removed another, and monsters are
\* still on their way.
C21_Witness ==
    /\ lastUpdate.from = "playing"
    /\ lastUpdate.spawned = 1
    /\ lastUpdate.escaped + lastUpdate.matched + lastUpdate.mismatched >= 1
    /\ Len(monsters) >= 2
    /\ monstersDefeated >= 1

====
